---- MODULE Spec2Model ----
(***************************************************************************)
(* Model of the graph loading / merging scripts:                           *)
(*   scripts/import_neo4j.py                    (IdempotentImporter)       *)
(*   scripts/export_neo4j.py                    (GraphExporter)            *)
(*   codebase-analyzer/scripts/load_codebase_fast.py  (bulk loader)        *)
(* The property-graph store is modelled by the sets nodes and edges; the   *)
(* Cypher statements the scripts send are modelled by operators on them.   *)
(***************************************************************************)
EXTENDS Integers, Sequences, FiniteSets, TLC

VARIABLES
    nodes,        \* store: set of [id, labels, props]
    edges,        \* store: set of [id, type, src, dst, props]
    nextId,       \* store: next internal id
    constraint,   \* store: uniqueness constraint on (:Imported).GUID exists
    impPc,        \* importer main(): position
    payload,      \* importer main(): [nodes, edges] read from the JSON file
    impI,         \* importer main(): index of the item the loop is at
    impErr,       \* importer main(): the exception that ended the run
    impWrites,    \* importer main(): execute_write calls issued in this run
    impRun,       \* number of importer runs started
    impFrom,      \* where the payload of this run came from
    prevCount,    \* node / edge counts when this run started
    impOut,       \* importer main(): the line this run has printed
    exportOut,    \* exporter: the output_data of the last export
    ldInput,      \* loader main(): [tree, edges] read from the JSON file
    ldPc,         \* loader: position in main() and the functions it calls
    ldI,          \* loader: offset i of the batch loop that is running
    ldT,          \* load_edges_batch: index of the edge type being loaded
    existing,     \* load_edges_batch: GUIDs the existence query returned
    ldTypeLog,    \* load_edges_batch: per type, the totals it has printed
    ldLog,        \* loader: the requests sent to the store, with their outcome
    ldReport,     \* verify_load: the report printed, if any
    ldRun,        \* number of loader runs / calls started
    ldPrev        \* what the store held when this run of main() started

storeVars == <<nodes, edges, nextId, constraint>>
impVars == <<impPc, payload, impI, impErr, impWrites, impRun, impFrom, prevCount,
             impOut>>
ldVars == <<ldInput, ldPc, ldI, ldT, existing, ldTypeLog, ldLog, ldReport, ldRun,
            ldPrev>>
vars == <<nodes, edges, nextId, constraint, impPc, payload, impI, impErr,
          impWrites, impRun, impFrom, prevCount, impOut, exportOut,
          ldInput, ldPc, ldI, ldT, existing, ldTypeLog, ldLog, ldReport, ldRun,
          ldPrev>>

(***************************************************************************)
(* Bounds                                                                  *)
(***************************************************************************)
MaxPayloadNodes == 2
MaxPayloadEdges == 2
MaxImpRuns == 2
MaxTreeNodes == 3
MaxLdEdges == 2
MaxLdRuns == 2
MaxRelCalls == 3
MaxNodeCalls == 2
MaxFlatNodes == 3
\* the batch sizes (1000, 1000 and 500 in the scripts), scaled to the inputs
NodeBatchSize == 2
RelBatchSize == 1
EdgeBatchSize == 1

(***************************************************************************)
(* Relationship types are strings; they are modelled as sequences of       *)
(* characters so that the loader's normalisation can be computed.          *)
(***************************************************************************)
RELATED_TO == <<"R", "E", "L", "A", "T", "E", "D", "_", "T", "O">>
CONTAINS == <<"C", "O", "N", "T", "A", "I", "N", "S">>
KNOWS == <<"K", "N", "O", "W", "S">>

SeqUpTo(S, n) == UNION {[1..k -> S] : k \in 0..n}

Min(a, b) == IF a < b THEN a ELSE b

(***************************************************************************)
(* Importer inputs.  An item is a JSON object: a record whose domain is    *)
(* the set of keys the object has.                                         *)
(***************************************************************************)
\* a JSON null, None once loaded
Null == "<null>"

NodeItems ==
    { [GUID |-> "g1", labels |-> <<"A">>],
      [GUID |-> "g1", labels |-> <<"B">>],
      [GUID |-> "g2", properties |-> [x |-> Null]],
      [GUID |-> "g2", labels |-> <<"CodeElement", "">>,
       properties |-> [x |-> "1", y |-> "2"]],
      [labels |-> <<"A">>] }

EdgeItems ==
    { [GUID |-> "e1", type |-> KNOWS, fromGUID |-> "g1", toGUID |-> "g2"],
      [GUID |-> "e2", fromGUID |-> "g1", toGUID |-> "g1", properties |-> [w |-> "1"]],
      [GUID |-> "e1", type |-> KNOWS, fromGUID |-> "g1"],
      [type |-> KNOWS, fromGUID |-> "g1", toGUID |-> "g2"],
      [GUID |-> "e2", type |-> <<>>, fromGUID |-> "", toGUID |-> "g2"] }

Payloads ==
    [nodes : SeqUpTo(NodeItems, MaxPayloadNodes),
     edges : SeqUpTo(EdgeItems, MaxPayloadEdges)]

(***************************************************************************)
(* Store helpers                                                           *)
(***************************************************************************)
NodeCount == Cardinality(nodes)
EdgeCount == Cardinality(edges)

\* MATCH (n {GUID: g})
NodesWithGuid(g) == {n \in nodes : n.props.GUID = g}

RECURSIVE SeqById(_)
SeqById(S) ==
    IF S = {} THEN <<>>
    ELSE LET m == CHOOSE x \in S : \A y \in S : x.id <= y.id
         IN <<m>> \o SeqById(S \ {m})

(***************************************************************************)
(* import_neo4j.py                                                         *)
(***************************************************************************)
\* variant: the key is only tested for presence
HasKey(obj, key) == key \in DOMAIN obj

\* dict.get(key) used only for truthiness or with "or": absent, None and ""
\* are all falsy
HasTruthy(obj, key) == key \in DOMAIN obj /\ obj[key] # ""

\* ensure_list(node.get("labels")) for a list or an absent value
ensure_list(obj) ==
    IF "labels" \in DOMAIN obj
    THEN {obj.labels[i] : i \in {j \in DOMAIN obj.labels : obj.labels[j] # ""}}
    ELSE {}

\* the label set of the MERGE pattern of merge_node
MergeLabels(node) == ensure_list(node) \cup {"Imported"}

\* MERGE (n:labels {GUID: $guid}): the nodes the pattern matches
MergeNodeMatches(node) ==
    {n \in nodes : MergeLabels(node) \subseteq n.labels /\ n.props.GUID = node.GUID}

\* the uniqueness constraint rejects a second :Imported node with the GUID
ViolatesConstraint(node) ==
    /\ constraint
    /\ \E n \in nodes : "Imported" \in n.labels /\ n.props.GUID = node.GUID

\* dict(item.get("properties") or {})
PropertiesOf(item) ==
    IF "properties" \in DOMAIN item THEN item.properties ELSE [k \in {} |-> ""]

\* props of merge_node, lines 27-31
NodeProps(node) ==
    LET base == PropertiesOf(node)
        keys == DOMAIN base \cup {"GUID"}
                    \cup (IF "neo4jId" \in DOMAIN node
                             /\ "legacyNeo4jId" \notin DOMAIN base
                          THEN {"legacyNeo4jId"} ELSE {})
    IN [k \in keys |-> IF k = "GUID" THEN node.GUID
                       ELSE IF k \in DOMAIN base THEN base[k]
                       ELSE node.neo4jId]

\* SET e += $props: keys of props are set, those given as null are removed,
\* every other property of e stays
SetPlus(old, props) ==
    LET keys == (DOMAIN old \cup DOMAIN props)
                    \ {k \in DOMAIN props : props[k] = Null}
    IN [k \in keys |-> IF k \in DOMAIN props THEN props[k] ELSE old[k]]

\* variant: CREATE in place of MERGE
create_node(node) ==
    nodes \cup {[id |-> nextId, labels |-> MergeLabels(node),
                 props |-> SetPlus([GUID |-> node.GUID], NodeProps(node))]}

\* the store after merge_node(tx, node) commits
merge_node(node) ==
    IF MergeNodeMatches(node) # {}
    THEN (nodes \ MergeNodeMatches(node))
            \cup {[n EXCEPT !.props = SetPlus(n.props, NodeProps(node))] :
                    n \in MergeNodeMatches(node)}
    ELSE nodes \cup {[id |-> nextId, labels |-> MergeLabels(node),
                      props |-> SetPlus([GUID |-> node.GUID], NodeProps(node))]}

\* edge.get("type") or "RELATED_TO"
RelType(edge) ==
    IF "type" \in DOMAIN edge /\ edge.type # <<>> THEN edge.type ELSE RELATED_TO

\* MATCH (start {GUID: $from_guid}) MATCH (end {GUID: $to_guid}): the rows
RelRows(edge) ==
    {<<s.id, e.id>> : s \in NodesWithGuid(edge.fromGUID), e \in NodesWithGuid(edge.toGUID)}

\* MERGE (start)-[rel:type {GUID: $guid}]->(end) finds no relationship
RelMissingRows(edge) ==
    {row \in RelRows(edge) :
        ~\E r \in edges : /\ r.type = RelType(edge)
                          /\ r.src = row[1] /\ r.dst = row[2]
                          /\ "GUID" \in DOMAIN r.props
                          /\ r.props.GUID = edge.GUID}

RowLess(p, q) == p[1] < q[1] \/ (p[1] = q[1] /\ p[2] < q[2])
RowRank(rows, p) == Cardinality({q \in rows : RowLess(q, p)})

\* props of merge_relationship, lines 45-50
EdgeProps(edge) ==
    LET base == PropertiesOf(edge)
        keys == DOMAIN base \cup {"GUID", "fromGUID", "toGUID"}
                    \cup (IF "neo4jId" \in DOMAIN edge
                             /\ "legacyNeo4jId" \notin DOMAIN base
                          THEN {"legacyNeo4jId"} ELSE {})
    IN [k \in keys |-> IF k = "GUID" THEN edge.GUID
                       ELSE IF k \in DOMAIN base THEN base[k]
                       ELSE IF k = "fromGUID" THEN edge.fromGUID
                       ELSE IF k = "toGUID" THEN edge.toGUID
                       ELSE edge.neo4jId]

\* the relationships the MERGE of merge_relationship matches
RelMatched(edge) ==
    {r \in edges : /\ r.type = RelType(edge)
                   /\ <<r.src, r.dst>> \in RelRows(edge)
                   /\ "GUID" \in DOMAIN r.props
                   /\ r.props.GUID = edge.GUID}

\* the store after merge_relationship(tx, edge) commits
merge_relationship(edge) ==
    (edges \ RelMatched(edge))
        \cup {[r EXCEPT !.props = SetPlus(r.props, EdgeProps(edge))] :
                r \in RelMatched(edge)}
        \cup {[id |-> nextId + RowRank(RelMissingRows(edge), row),
                type |-> RelType(edge), src |-> row[1], dst |-> row[2],
                props |-> SetPlus([GUID |-> edge.GUID], EdgeProps(edge))] :
                    row \in RelMissingRows(edge)}

NoErr == [kind |-> "none"]
NoOut == [kind |-> "none"]
Idle == impPc \in {"idle", "done", "failed", "dry_run_done"}

\* main(), lines 70-78: read the payload given on the command line
ImpStart ==
    /\ Idle /\ impRun < MaxImpRuns
    /\ \E p \in Payloads : payload' = p
    /\ impPc' = "constraint" /\ impI' = 1 /\ impErr' = NoErr /\ impWrites' = 0
    /\ impRun' = impRun + 1 /\ impFrom' = "file" /\ impOut' = NoOut
    /\ prevCount' = [nodes |-> NodeCount, edges |-> EdgeCount]
    /\ UNCHANGED <<storeVars, exportOut>>
    /\ UNCHANGED ldVars

\* variant: the dry-run test comes after the constraint has been created
ImpDryRunLate ==
    /\ Idle /\ impRun < MaxImpRuns
    /\ \E p \in Payloads :
        /\ payload' = p
        /\ impOut' = [kind |-> "dry run", nodes |-> Len(p.nodes), edges |-> Len(p.edges)]
    /\ constraint' = TRUE
    /\ impPc' = "dry_run_done" /\ impI' = 1 /\ impErr' = NoErr /\ impWrites' = 0
    /\ impRun' = impRun + 1 /\ impFrom' = "file"
    /\ prevCount' = [nodes |-> NodeCount, edges |-> EdgeCount]
    /\ UNCHANGED <<nodes, edges, nextId, exportOut>>
    /\ UNCHANGED ldVars

\* main() with --dry-run, lines 70-76: the counts are printed and main returns
ImpDryRun ==
    /\ Idle /\ impRun < MaxImpRuns
    /\ \E p \in Payloads :
        /\ payload' = p
        /\ impOut' = [kind |-> "dry run", nodes |-> Len(p.nodes), edges |-> Len(p.edges)]
    /\ impPc' = "dry_run_done" /\ impI' = 1 /\ impErr' = NoErr /\ impWrites' = 0
    /\ impRun' = impRun + 1 /\ impFrom' = "file"
    /\ prevCount' = [nodes |-> NodeCount, edges |-> EdgeCount]
    /\ UNCHANGED <<storeVars, exportOut>>
    /\ UNCHANGED ldVars

\* main() run again on the same file after a run that completed
ImpRerun ==
    /\ impPc = "done" /\ impRun < MaxImpRuns
    /\ impPc' = "constraint" /\ impI' = 1 /\ impErr' = NoErr /\ impWrites' = 0
    /\ impRun' = impRun + 1 /\ impFrom' = "rerun" /\ impOut' = NoOut
    /\ prevCount' = [nodes |-> NodeCount, edges |-> EdgeCount]
    /\ UNCHANGED <<storeVars, payload, exportOut>>
    /\ UNCHANGED ldVars

\* main(), lines 78-89: best-effort constraint creation, failure swallowed
ImpConstraint ==
    /\ impPc = "constraint"
    /\ \E ok \in BOOLEAN :
        /\ ok => \A n1, n2 \in nodes :
                    ("Imported" \in n1.labels /\ "Imported" \in n2.labels
                     /\ n1.props.GUID = n2.props.GUID) => n1 = n2
        /\ constraint' = (constraint \/ ok)
    /\ impPc' = "nodes"
    /\ UNCHANGED <<nodes, edges, nextId, payload, impI, impErr, impWrites,
                   impRun, impFrom, prevCount, impOut, exportOut>>
    /\ UNCHANGED ldVars

\* main(), lines 92-95: one iteration of the node loop
ImpNode ==
    /\ impPc = "nodes" /\ impI <= Len(payload.nodes)
    /\ LET node == payload.nodes[impI] IN
        IF ~HasTruthy(node, "GUID")
        THEN /\ impPc' = "failed"
             /\ impErr' = [kind |-> "NodeMissingGUID"]
             /\ UNCHANGED <<storeVars, impI, impWrites>>
        ELSE IF MergeNodeMatches(node) = {} /\ ViolatesConstraint(node)
        THEN /\ impPc' = "failed"
             /\ impErr' = [kind |-> "ConstraintError"]
             /\ impWrites' = impWrites + 1
             /\ UNCHANGED <<storeVars, impI>>
        ELSE /\ nodes' = merge_node(node)
             /\ nextId' = nextId + Cardinality(nodes') - Cardinality(nodes)
             /\ impI' = impI + 1
             /\ impWrites' = impWrites + 1
             /\ UNCHANGED <<edges, constraint, impPc, impErr>>
    /\ UNCHANGED <<payload, impRun, impFrom, prevCount, impOut, exportOut>>
    /\ UNCHANGED ldVars

\* variant: the edge loop begins when the last node is still to be merged
ImpNodesDoneEarly ==
    /\ impPc = "nodes" /\ impI >= Len(payload.nodes)
    /\ impPc' = "edges" /\ impI' = 1
    /\ UNCHANGED <<storeVars, payload, impErr, impWrites, impRun, impFrom,
                   prevCount, impOut, exportOut>>
    /\ UNCHANGED ldVars

\* main(), line 97: the node loop is exhausted, the edge loop begins
ImpNodesDone ==
    /\ impPc = "nodes" /\ impI > Len(payload.nodes)
    /\ impPc' = "edges" /\ impI' = 1
    /\ UNCHANGED <<storeVars, payload, impErr, impWrites, impRun, impFrom,
                   prevCount, impOut, exportOut>>
    /\ UNCHANGED ldVars

\* main(), lines 97-100: one iteration of the edge loop
ImpEdge ==
    /\ impPc = "edges" /\ impI <= Len(payload.edges)
    /\ LET edge == payload.edges[impI] IN
        IF ~HasTruthy(edge, "GUID")
        THEN /\ impPc' = "failed"
             /\ impErr' = [kind |-> "EdgeMissingGUID"]
             /\ UNCHANGED <<storeVars, impI, impWrites>>
        ELSE IF ~HasTruthy(edge, "fromGUID") \/ ~HasTruthy(edge, "toGUID")
        THEN \* raised inside the transaction function before tx.run
             /\ impPc' = "failed"
             /\ impErr' = [kind |-> "EdgeMissingEndpoint", edge |-> edge.GUID]
             /\ UNCHANGED <<storeVars, impI, impWrites>>
        ELSE /\ edges' = merge_relationship(edge)
             /\ nextId' = nextId + Cardinality(edges') - Cardinality(edges)
             /\ impI' = impI + 1
             /\ impWrites' = impWrites + 1
             /\ UNCHANGED <<nodes, constraint, impPc, impErr>>
    /\ UNCHANGED <<payload, impRun, impFrom, prevCount, impOut, exportOut>>
    /\ UNCHANGED ldVars

\* main(), line 102: both loops are done
ImpFinish ==
    /\ impPc = "edges" /\ impI > Len(payload.edges)
    /\ impPc' = "done"
    /\ impOut' = [kind |-> "imported", nodes |-> Len(payload.nodes),
                  edges |-> Len(payload.edges)]
    /\ UNCHANGED <<storeVars, payload, impI, impErr, impWrites, impRun,
                   impFrom, prevCount, exportOut>>
    /\ UNCHANGED ldVars

(***************************************************************************)
(* export_neo4j.py                                                         *)
(***************************************************************************)
ExcludedLabel == "CodeElement"

\* serialize_neo4j_value on a property map whose values are plain strings
serialize_neo4j_value(obj) == [k \in DOMAIN obj |-> obj[k]]

\* lines 59-76: MATCH (n) WHERE NOT n:CodeElement
ExportedNodes == {n \in nodes : ExcludedLabel \notin n.labels}

\* variant: only the source is filtered
ExportedEdgesSourceOnly ==
    {r \in edges : \E s \in ExportedNodes : s.id = r.src}

\* lines 82-100: MATCH (source)-[r]->(target) WHERE NOT source:CodeElement
\* AND NOT target:CodeElement
ExportedEdges ==
    {r \in edges : \E s, t \in ExportedNodes : s.id = r.src /\ t.id = r.dst}

ExportNodeDict(n) ==
    [id |-> n.id, labels |-> n.labels, properties |-> serialize_neo4j_value(n.props)]

ExportEdgeDict(r) ==
    [id |-> r.id, type |-> r.type, source_id |-> r.src, target_id |-> r.dst,
     properties |-> serialize_neo4j_value(r.props)]

OutputData ==
    LET ns == SeqById(ExportedNodes)
        es == SeqById(ExportedEdges)
    IN [export_metadata |-> [node_count |-> Len(ns), edge_count |-> Len(es)],
        nodes |-> [i \in DOMAIN ns |-> ExportNodeDict(ns[i])],
        edges |-> [i \in DOMAIN es |-> ExportEdgeDict(es[i])]]

NoExport ==
    [export_metadata |-> [node_count |-> 0, edge_count |-> 0],
     nodes |-> <<>>, edges |-> <<>>]

\* export_neo4j_to_json(): read the store, write neo4j_export.json
export_neo4j_to_json ==
    /\ impPc = "done" /\ impFrom # "export" /\ impRun < MaxImpRuns
    /\ exportOut' = OutputData
    /\ impPc' = "exported"
    /\ UNCHANGED <<storeVars, payload, impI, impErr, impWrites, impRun,
                   impFrom, prevCount, impOut>>
    /\ UNCHANGED ldVars

\* main() of the importer run on neo4j_export.json against an empty store
ImpStartExport ==
    /\ impPc = "exported"
    /\ payload' = [nodes |-> exportOut.nodes, edges |-> exportOut.edges]
    /\ nodes' = {} /\ edges' = {} /\ nextId' = 1 /\ constraint' = FALSE
    /\ impPc' = "constraint" /\ impI' = 1 /\ impErr' = NoErr /\ impWrites' = 0
    /\ impRun' = impRun + 1 /\ impFrom' = "export" /\ impOut' = NoOut
    /\ prevCount' = [nodes |-> 0, edges |-> 0]
    /\ UNCHANGED exportOut
    /\ UNCHANGED ldVars

(***************************************************************************)
(* load_codebase_fast.py: inputs                                           *)
(***************************************************************************)
\* the fields of a tree node the loader's statements and checks read
TreeItems ==
    { [GUID |-> "R", name |-> "Kalisi"],
      [GUID |-> "A", name |-> "a"],
      [GUID |-> "B", name |-> "b"] }

Tree(item, children) ==
    [GUID |-> item.GUID, name |-> item.name, children |-> children]

RECURSIVE TreesOfSize(_)
RECURSIVE ForestsOfSize(_)
\* the trees with exactly n nodes
TreesOfSize(n) ==
    IF n = 0 THEN {}
    ELSE {Tree(it, f) : it \in TreeItems, f \in ForestsOfSize(n - 1)}
\* the child lists with n nodes in total
ForestsOfSize(n) ==
    IF n = 0 THEN {<<>>}
    ELSE UNION {{<<t>> \o f : t \in TreesOfSize(k), f \in ForestsOfSize(n - k)} :
                    k \in 1..n}

Trees == UNION {TreesOfSize(n) : n \in 1..MaxTreeNodes}

\* tree nodes for flatten_nodes alone: one of them has an empty GUID
FlatTreeItems == TreeItems \cup {[GUID |-> "", name |-> "c"]}

RECURSIVE TreesOver(_, _)
RECURSIVE ForestsOver(_, _)
TreesOver(items, n) ==
    IF n = 0 THEN {}
    ELSE {Tree(it, f) : it \in items, f \in ForestsOver(items, n - 1)}
ForestsOver(items, n) ==
    IF n = 0 THEN {<<>>}
    ELSE UNION {{<<t>> \o f : t \in TreesOver(items, k),
                              f \in ForestsOver(items, n - k)} : k \in 1..n}

FlatTrees == UNION {TreesOver(FlatTreeItems, n) : n \in 1..MaxFlatNodes}

CALLS_RAW == <<"c", "a", "l", "l", "s">>
IMPORTS_RAW == <<"i", "m", "p", "o", "r", "t", "s">>
IMPORTS == <<"I", "M", "P", "O", "R", "T", "S">>
DEPENDS_ON_RAW == <<"d", "e", "p", "e", "n", "d", "s", " ", "o", "n">>
DEPENDS_ON == <<"D", "E", "P", "E", "N", "D", "S", "_", "O", "N">>

LdEdgeItems ==
    { [source |-> "A", target |-> "X", type |-> CALLS_RAW, name |-> "n1", guid |-> "e1"],
      [source |-> "A", target |-> "R", type |-> IMPORTS_RAW, name |-> "n2", guid |-> "e2"],
      [source |-> "A", target |-> "B", type |-> IMPORTS, name |-> "n3", guid |-> "e3"],
      [source |-> "B", target |-> "A", type |-> DEPENDS_ON_RAW, name |-> "n4", guid |-> "e4"] }

LdInputs == [tree : Trees, edges : SeqUpTo(LdEdgeItems, MaxLdEdges)]

(***************************************************************************)
(* load_codebase_fast.py: pure functions                                   *)
(***************************************************************************)
LowerCase == <<"a", "b", "c", "d", "e", "f", "g", "h", "i", "j", "k", "l", "m",
               "n", "o", "p", "q", "r", "s", "t", "u", "v", "w", "x", "y", "z">>
UpperCase == <<"A", "B", "C", "D", "E", "F", "G", "H", "I", "J", "K", "L", "M",
               "N", "O", "P", "Q", "R", "S", "T", "U", "V", "W", "X", "Y", "Z">>

\* str.upper() on one character
UpperChar(c) ==
    IF \E i \in DOMAIN LowerCase : LowerCase[i] = c
    THEN UpperCase[CHOOSE i \in DOMAIN LowerCase : LowerCase[i] = c]
    ELSE c

\* edge['type'].upper().replace(' ', '_')
NormalizeType(t) ==
    [i \in DOMAIN t |-> IF UpperChar(t[i]) = " " THEN "_" ELSE UpperChar(t[i])]

\* node_data of flatten_nodes, restricted to the fields of TreeItems
NodeData(node) == [GUID |-> node.GUID, name |-> node.name]

RECURSIVE flatten_nodes(_, _, _, _)
RECURSIVE FlattenChildren(_, _, _)
\* variant: the children are handed the node's own parent_guid
flatten_nodes_skip(node, parent_guid, nodes_list, relationships) ==
    LET nl == Append(nodes_list, NodeData(node))
        rl == IF parent_guid # ""
              THEN Append(relationships,
                          [parent_GUID |-> parent_guid, child_GUID |-> node.GUID])
              ELSE relationships
    IN FlattenChildren(node.children, parent_guid,
                       [nodes_list |-> nl, relationships |-> rl])

\* flatten_nodes(node, parent_guid, nodes_list, relationships); None is ""
flatten_nodes(node, parent_guid, nodes_list, relationships) ==
    LET nl == Append(nodes_list, NodeData(node))
        rl == IF parent_guid # ""
              THEN Append(relationships,
                          [parent_GUID |-> parent_guid, child_GUID |-> node.GUID])
              ELSE relationships
    IN FlattenChildren(node.children, node.GUID,
                       [nodes_list |-> nl, relationships |-> rl])
\* the loop over node['children'], lines 224-226
FlattenChildren(children, guid, acc) ==
    IF children = <<>> THEN acc
    ELSE FlattenChildren(Tail(children), guid,
                         flatten_nodes(Head(children), guid,
                                       acc.nodes_list, acc.relationships))

Flat == flatten_nodes(ldInput.tree, "", <<>>, <<>>)
FlatNodes == Flat.nodes_list
FlatRels == Flat.relationships

\* variant: the slice stops one item short of i+batch_size
SliceShort(list, i, size) == SubSeq(list, i + 1, Min(i + size, Len(list)) - 1)

\* list[i:i+batch_size]
Slice(list, i, size) == SubSeq(list, i + 1, Min(i + size, Len(list)))

\* the number of iterations of range(0, len, batch_size)
NumBatches(len, size) == (len + size - 1) \div size

RECURSIVE EdgeTypeKeys(_)
\* the keys of edge_types in insertion order, lines 80-85
EdgeTypeKeys(es) ==
    IF es = <<>> THEN <<>>
    ELSE LET prev == EdgeTypeKeys(SubSeq(es, 1, Len(es) - 1))
             t == NormalizeType(es[Len(es)].type)
         IN IF \E i \in DOMAIN prev : prev[i] = t THEN prev ELSE Append(prev, t)

\* edge_types[edge_type]
RECURSIVE TypeEdges(_, _)
TypeEdges(es, t) ==
    IF es = <<>> THEN <<>>
    ELSE IF NormalizeType(Head(es).type) = t
         THEN <<Head(es)>> \o TypeEdges(Tail(es), t)
         ELSE TypeEdges(Tail(es), t)

RECURSIVE ValidEdges(_, _)
\* valid_edges, lines 107-110
ValidEdges(es, ex) ==
    IF es = <<>> THEN <<>>
    ELSE IF Head(es).source \in ex /\ Head(es).target \in ex
         THEN <<Head(es)>> \o ValidEdges(Tail(es), ex)
         ELSE ValidEdges(Tail(es), ex)

CurKeys == EdgeTypeKeys(ldInput.edges)
CurType == CurKeys[ldT]
CurTypeEdges == TypeEdges(ldInput.edges, CurType)
CurValidEdges == ValidEdges(CurTypeEdges, existing)

(***************************************************************************)
(* load_codebase_fast.py: the statements, as effects on the store          *)
(***************************************************************************)
CodebaseNodes == {n \in nodes : "CodebaseNode" \in n.labels}

\* MATCH (n:CodebaseNode {GUID: g})
CbWithGuid(g) == {n \in CodebaseNodes : n.props.GUID = g}

\* variant: the clearing statement deletes no node
NodesNotCleared == nodes

\* MATCH (n:CodebaseNode) DETACH DELETE n
NodesAfterClear == nodes \ CodebaseNodes
EdgesAfterClear ==
    {r \in edges : \A n \in CodebaseNodes : r.src # n.id /\ r.dst # n.id}

\* variant: MERGE on the GUID in place of CREATE
NodesAfterMergeByGuid(batch) ==
    nodes \cup {[id |-> nextId + i - 1, labels |-> {"CodebaseNode"},
                 props |-> batch[i]] :
                    i \in {j \in DOMAIN batch : CbWithGuid(batch[j].GUID) = {}}}

\* UNWIND $batch AS node CREATE (n:CodebaseNode {...})
NodesAfterCreate(batch) ==
    nodes \cup {[id |-> nextId + i - 1, labels |-> {"CodebaseNode"},
                 props |-> batch[i]] : i \in DOMAIN batch}

GuidOf(id) == (CHOOSE n \in nodes : n.id = id).props.GUID

\* UNWIND $batch AS rel MATCH (parent ...) MATCH (child ...): the rows
ContainsRows(batch) ==
    UNION {{<<p.id, c.id>> : p \in CbWithGuid(batch[j].parent_GUID),
                             c \in CbWithGuid(batch[j].child_GUID)} :
              j \in DOMAIN batch}

\* MERGE (parent)-[:CONTAINS {fromGUID, toGUID}]->(child) finds no relationship
ContainsMissingRows(batch) ==
    {row \in ContainsRows(batch) :
        ~\E r \in edges : /\ r.type = CONTAINS
                          /\ r.src = row[1] /\ r.dst = row[2]
                          /\ r.props.fromGUID = GuidOf(row[1])
                          /\ r.props.toGUID = GuidOf(row[2])}

\* variant: CREATE in place of MERGE
EdgesAfterCreateContains(batch) ==
    edges \cup {[id |-> nextId + RowRank(ContainsRows(batch), row),
                 type |-> CONTAINS, src |-> row[1], dst |-> row[2],
                 props |-> [fromGUID |-> GuidOf(row[1]), toGUID |-> GuidOf(row[2])]] :
                    row \in ContainsRows(batch)}

\* the store after one relationship batch, lines 59-65
EdgesAfterMergeContains(batch) ==
    edges \cup {[id |-> nextId + RowRank(ContainsMissingRows(batch), row),
                 type |-> CONTAINS, src |-> row[1], dst |-> row[2],
                 props |-> [fromGUID |-> GuidOf(row[1]), toGUID |-> GuidOf(row[2])]] :
                    row \in ContainsMissingRows(batch)}

\* lines 93-104: the GUIDs of all_guids that a CodebaseNode holds
ExistingGuids(es) ==
    {g \in {es[i].source : i \in DOMAIN es} \cup {es[i].target : i \in DOMAIN es} :
        CbWithGuid(g) # {}}

\* UNWIND $batch AS edge MATCH (source ...) MATCH (target ...): the rows
TypedRows(batch) ==
    UNION {{<<j, s.id, d.id>> : s \in CbWithGuid(batch[j].source),
                                d \in CbWithGuid(batch[j].target)} :
              j \in DOMAIN batch}

TripleLess(p, q) ==
    \/ p[1] < q[1]
    \/ (p[1] = q[1] /\ p[2] < q[2])
    \/ (p[1] = q[1] /\ p[2] = q[2] /\ p[3] < q[3])
TripleRank(rows, p) == Cardinality({q \in rows : TripleLess(q, p)})

\* the store after one typed-edge batch, lines 123-136
EdgesAfterCreateTyped(t, batch) ==
    edges \cup {[id |-> nextId + TripleRank(TypedRows(batch), row),
                 type |-> t, src |-> row[2], dst |-> row[3],
                 props |-> [name |-> batch[row[1]].name,
                            edge_guid |-> batch[row[1]].guid,
                            fromGUID |-> batch[row[1]].source,
                            toGUID |-> batch[row[1]].target]] :
                    row \in TypedRows(batch)}

IsCb(id) == \E n \in CodebaseNodes : n.id = id

ExpectedNodes == 6943
ExpectedContains == 6942
ExpectedImports == 2008
ExpectedDepends == 25
ExpectedKalisiChildren == 22

\* the stats of verify_load, lines 152-173
VerifyStats ==
    [node_count |-> Cardinality(CodebaseNodes),
     contains_count |->
        Cardinality({r \in edges : r.type = CONTAINS /\ IsCb(r.src) /\ IsCb(r.dst)}),
     imports_count |-> Cardinality({r \in edges : r.type = IMPORTS /\ IsCb(r.src)}),
     depends_count |-> Cardinality({r \in edges : r.type = DEPENDS_ON /\ IsCb(r.src)}),
     kalisi_children |->
        Cardinality({r \in edges :
            /\ r.type = CONTAINS
            /\ \E k \in CodebaseNodes : k.id = r.src /\ k.props.name = "Kalisi"})]

\* variant: the root's child count is not looked at
PerfectNoChildren(stats) ==
    /\ stats.node_count = ExpectedNodes
    /\ stats.contains_count = ExpectedContains

\* perfect, lines 182-186
Perfect(stats) ==
    /\ stats.node_count = ExpectedNodes
    /\ stats.contains_count = ExpectedContains
    /\ stats.kalisi_children = ExpectedKalisiChildren

\* the note of lines 191-192, printed under "PERFECT LOAD" only
EdgeNote(stats) ==
    /\ Perfect(stats)
    /\ (stats.imports_count < ExpectedImports \/ stats.depends_count < ExpectedDepends)

\* what verify_load prints for the counts it has read
ReportOf(stats) ==
    [printed |-> TRUE, stats |-> stats, perfect |-> Perfect(stats),
     warning |-> EdgeNote(stats)]

NoReport == [printed |-> FALSE]

\* the loader's nodes, containment edges and typed edges in the store
LoaderCounts ==
    [nodes |-> Cardinality(CodebaseNodes),
     contains |-> Cardinality({r \in edges : r.type = CONTAINS}),
     typed |-> {<<t, Cardinality({r \in edges : r.type = t})>> :
                    t \in {r.type : r \in edges} \ {CONTAINS}}]

NoPrev == [completed |-> FALSE,
           counts |-> [nodes |-> 0, contains |-> 0, typed |-> {}]]

\* counts the five queries of verify_load may return, around the expected ones
StatsInputs ==
    [node_count : {ExpectedNodes - 1, ExpectedNodes, ExpectedNodes + 1},
     contains_count : {ExpectedContains - 1, ExpectedContains, ExpectedContains + 1},
     imports_count : {0, ExpectedImports - 1, ExpectedImports},
     depends_count : {ExpectedDepends - 1, ExpectedDepends},
     kalisi_children : {ExpectedKalisiChildren - 1, ExpectedKalisiChildren,
                        ExpectedKalisiChildren + 1}]

(***************************************************************************)
(* load_codebase_fast.py: main() and the loaders, one request at a time    *)
(***************************************************************************)
\* session.run(...) has been sent and result.single() has not returned
Awaiting == ldLog # <<>> /\ ldLog[Len(ldLog)].status = "sent"

\* the loop of the running stage has a batch left, or the stage is one request
HasRequest ==
    \/ ldPc \in {"clear", "index", "edges_query", "verify"}
    \/ ldPc = "nodes" /\ ldI < Len(FlatNodes)
    \/ ldPc = "rels" /\ ldI < Len(FlatRels)
    \/ ldPc = "edges_batch" /\ ldI < Len(CurValidEdges)

BatchSizeOf(pc) ==
    IF pc = "nodes" THEN NodeBatchSize
    ELSE IF pc = "rels" THEN RelBatchSize
    ELSE EdgeBatchSize

\* batch = list[i:i+batch_size] of the loop that is running
CurBatch ==
    IF ldPc = "nodes" THEN Slice(FlatNodes, ldI, NodeBatchSize)
    ELSE IF ldPc = "rels" THEN Slice(FlatRels, ldI, RelBatchSize)
    ELSE IF ldPc = "edges_batch" THEN Slice(CurValidEdges, ldI, EdgeBatchSize)
    ELSE <<>>

Request ==
    [kind |-> ldPc,
     type |-> IF ldPc \in {"edges_query", "edges_batch"} THEN CurType ELSE <<>>,
     k |-> IF ldPc \in {"nodes", "rels", "edges_batch"}
           THEN ldI \div BatchSizeOf(ldPc) + 1 ELSE 0,
     batch |-> CurBatch,
     created |-> 0,
     status |-> "sent"]

Reply(status) == [ldLog EXCEPT ![Len(ldLog)].status = status]

\* created = result.single()['created'] of a node batch, line 42
ReplyCreated(n) ==
    [ldLog EXCEPT ![Len(ldLog)].status = "ok", ![Len(ldLog)].created = n]

\* load_nodes_batch has no return statement: the call evaluates to None
LoadNodesReturn == [kind |-> "None"]

\* created is printed, line 43, and compared with nothing: no run is flagged
RunDegraded == FALSE

impAll == <<impPc, payload, impI, impErr, impWrites, impRun, impFrom,
            prevCount, impOut, exportOut, constraint>>

\* main(), lines 230-258: read the input, flatten it, connect
LdStart ==
    /\ ldPc \in {"idle", "closed", "aborted"} /\ ldRun < MaxLdRuns
    /\ ldPc' = "clear" /\ ldI' = 0 /\ ldT' = 1 /\ existing' = {}
    /\ ldTypeLog' = <<>> /\ ldLog' = <<>> /\ ldReport' = NoReport
    /\ ldRun' = ldRun + 1
    /\ ldPrev' = [completed |-> ldPc = "closed", counts |-> LoaderCounts]
    /\ UNCHANGED <<nodes, edges, nextId, ldInput, impAll>>

\* session.run(...): the next request of the running stage is sent
LdSubmit ==
    /\ ~Awaiting /\ HasRequest
    /\ ldLog' = Append(ldLog, Request)
    /\ UNCHANGED <<nodes, edges, nextId, ldInput, ldPc, ldI, ldT, existing,
                   ldTypeLog, ldReport, ldRun, ldPrev, impAll>>

\* variant: the exception is swallowed and the loop goes on
LdFailSwallowed ==
    /\ Awaiting
    /\ ldLog' = Reply("error")
    /\ UNCHANGED <<nodes, edges, nextId, ldInput, ldPc, ldI, ldT, existing,
                   ldTypeLog, ldReport, ldRun, ldPrev, impAll>>

\* the store rejects the request: the exception leaves main() through finally
LdFail ==
    /\ Awaiting
    /\ ldLog' = Reply("error")
    /\ ldPc' = "aborted"
    /\ UNCHANGED <<nodes, edges, nextId, ldInput, ldI, ldT, existing,
                   ldTypeLog, ldReport, ldRun, ldPrev, impAll>>

\* main(), lines 260-261
LdAckClear ==
    /\ Awaiting /\ ldPc = "clear"
    /\ nodes' = NodesAfterClear /\ edges' = EdgesAfterClear
    /\ ldLog' = Reply("ok")
    /\ ldPc' = "nodes" /\ ldI' = 0
    /\ UNCHANGED <<nextId, ldInput, ldT, existing, ldTypeLog, ldReport, ldRun, ldPrev, impAll>>

\* load_nodes_batch, lines 25-43: one batch is created
LdAckNodes ==
    /\ Awaiting /\ ldPc = "nodes"
    /\ LET batch == CurBatch IN
        /\ nodes' = NodesAfterCreate(batch)
        /\ nextId' = nextId + Len(batch)
    /\ ldLog' = ReplyCreated(Cardinality(nodes') - Cardinality(nodes))
    /\ ldI' = ldI + NodeBatchSize
    /\ UNCHANGED <<edges, ldInput, ldPc, ldT, existing, ldTypeLog, ldReport, ldRun, ldPrev, impAll>>

\* variant: the loop stops one batch early
LdNodesLoopEndEarly ==
    /\ ~Awaiting /\ ldPc = "nodes" /\ ldI + NodeBatchSize >= Len(FlatNodes)
    /\ ldPc' = "index"
    /\ UNCHANGED <<nodes, edges, nextId, ldInput, ldI, ldT, existing, ldTypeLog,
                   ldLog, ldReport, ldRun, ldPrev, impAll>>

\* load_nodes_batch, line 24: the range is exhausted
LdNodesLoopEnd ==
    /\ ~Awaiting /\ ldPc = "nodes" /\ ldI >= Len(FlatNodes)
    /\ ldPc' = "index"
    /\ UNCHANGED <<nodes, edges, nextId, ldInput, ldI, ldT, existing, ldTypeLog,
                   ldLog, ldReport, ldRun, ldPrev, impAll>>

\* load_nodes_batch, lines 46-48, and main(), line 265
LdAckIndex ==
    /\ Awaiting /\ ldPc = "index"
    /\ ldLog' = Reply("ok")
    /\ ldPc' = "rels" /\ ldI' = 0
    /\ UNCHANGED <<nodes, edges, nextId, ldInput, ldT, existing, ldTypeLog,
                   ldReport, ldRun, ldPrev, impAll>>

\* load_relationships_batch, lines 57-69: one batch is merged
LdAckRels ==
    /\ Awaiting /\ ldPc = "rels"
    /\ LET batch == CurBatch IN
        /\ edges' = EdgesAfterMergeContains(batch)
        /\ nextId' = nextId + Cardinality(edges') - Cardinality(edges)
    /\ ldLog' = Reply("ok")
    /\ ldI' = ldI + RelBatchSize
    /\ UNCHANGED <<nodes, ldInput, ldPc, ldT, existing, ldTypeLog, ldReport, ldRun, ldPrev, impAll>>

\* load_relationships_batch, line 56: the range is exhausted
LdRelsLoopEnd ==
    /\ ~Awaiting /\ ldPc = "rels" /\ ldI >= Len(FlatRels)
    /\ ldPc' = "rels_returned"
    /\ UNCHANGED <<nodes, edges, nextId, ldInput, ldI, ldT, existing, ldTypeLog,
                   ldLog, ldReport, ldRun, ldPrev, impAll>>

\* main(), line 266, and load_edges_batch, lines 73-87
MainCallEdges ==
    /\ ldPc = "rels_returned"
    /\ ldPc' = IF ldInput.edges = <<>> THEN "verify" ELSE "edges_query"
    /\ ldT' = 1 /\ ldI' = 0
    /\ UNCHANGED <<nodes, edges, nextId, ldInput, existing, ldTypeLog, ldLog,
                   ldReport, ldRun, ldPrev, impAll>>

\* load_edges_batch, lines 98-114: the existence query returns
LdAckExisting ==
    /\ Awaiting /\ ldPc = "edges_query"
    /\ existing' = ExistingGuids(CurTypeEdges)
    /\ ldTypeLog' = Append(ldTypeLog,
            [type |-> CurType, total |-> Len(CurTypeEdges),
             skipped |-> Len(CurTypeEdges) - Len(ValidEdges(CurTypeEdges, existing')),
             valid |-> Len(ValidEdges(CurTypeEdges, existing'))])
    /\ ldLog' = Reply("ok")
    /\ ldPc' = "edges_batch" /\ ldI' = 0
    /\ UNCHANGED <<nodes, edges, nextId, ldInput, ldT, ldReport, ldRun, ldPrev, impAll>>

\* load_edges_batch, lines 119-137: one sub-batch is created
LdAckEdges ==
    /\ Awaiting /\ ldPc = "edges_batch"
    /\ LET batch == CurBatch IN
        /\ edges' = EdgesAfterCreateTyped(CurType, batch)
        /\ nextId' = nextId + Cardinality(edges') - Cardinality(edges)
    /\ ldLog' = Reply("ok")
    /\ ldI' = ldI + EdgeBatchSize
    /\ UNCHANGED <<nodes, ldInput, ldPc, ldT, existing, ldTypeLog, ldReport, ldRun, ldPrev, impAll>>

\* load_edges_batch, lines 88 and 116-142: on to the next type, or return
LdEdgesLoopEnd ==
    /\ ~Awaiting /\ ldPc = "edges_batch" /\ ldI >= Len(CurValidEdges)
    /\ IF ldT < Len(CurKeys)
       THEN ldT' = ldT + 1 /\ ldPc' = "edges_query"
       ELSE ldT' = ldT /\ ldPc' = "verify"
    /\ UNCHANGED <<nodes, edges, nextId, ldInput, ldI, existing, ldTypeLog,
                   ldLog, ldReport, ldRun, ldPrev, impAll>>

\* verify_load, lines 150-195: the counts are read and the report printed
LdAckVerify ==
    /\ Awaiting /\ ldPc = "verify"
    /\ ldReport' = ReportOf(VerifyStats)
    /\ ldLog' = Reply("ok")
    /\ ldPc' = "verified"
    /\ UNCHANGED <<nodes, edges, nextId, ldInput, ldI, ldT, existing, ldTypeLog,
                   ldRun, ldPrev, impAll>>

\* main(), lines 271-277
LdClose ==
    /\ ldPc = "verified"
    /\ ldPc' = "closed"
    /\ UNCHANGED <<nodes, edges, nextId, ldInput, ldI, ldT, existing, ldTypeLog,
                   ldLog, ldReport, ldRun, ldPrev, impAll>>

\* load_relationships_batch(relationships) called on its own, again
RelCall ==
    /\ ldPc \in {"idle", "rels_returned", "aborted"} /\ ldRun < MaxRelCalls
    /\ ldPc' = "rels" /\ ldI' = 0
    /\ ldRun' = ldRun + 1
    /\ UNCHANGED <<nodes, edges, nextId, ldInput, ldT, existing, ldTypeLog,
                   ldLog, ldReport, ldPrev, impAll>>

\* verify_load() on a store whose five counts are those of stats
VerifyCounts ==
    /\ ldPc = "idle"
    /\ \E stats \in StatsInputs : ldReport' = ReportOf(stats)
    /\ ldPc' = "verified"
    /\ UNCHANGED <<nodes, edges, nextId, ldInput, ldI, ldT, existing, ldTypeLog,
                   ldLog, ldRun, ldPrev, impAll>>

\* load_nodes_batch(nodes) called on its own, again
NodesCall ==
    /\ ~Awaiting /\ ldRun < MaxNodeCalls
    /\ ldPc \in {"idle", "rels", "aborted"}
    /\ ldPc' = "nodes" /\ ldI' = 0
    /\ ldRun' = ldRun + 1
    /\ UNCHANGED <<nodes, edges, nextId, ldInput, ldT, existing, ldTypeLog,
                   ldLog, ldReport, ldPrev, impAll>>

\* session.run(...) inside load_nodes_batch
NodesSubmit ==
    /\ ldPc \in {"nodes", "index"}
    /\ LdSubmit

(***************************************************************************)
(* Specifications                                                          *)
(***************************************************************************)
StoreEmpty == nodes = {} /\ edges = {} /\ nextId = 1 /\ constraint = FALSE

ImpIdle ==
    /\ impPc = "idle" /\ payload = [nodes |-> <<>>, edges |-> <<>>]
    /\ impI = 1 /\ impErr = NoErr /\ impWrites = 0 /\ impRun = 0
    /\ impFrom = "file" /\ prevCount = [nodes |-> 0, edges |-> 0]
    /\ impOut = NoOut
    /\ exportOut = NoExport

LdIdle ==
    /\ ldPc = "idle" /\ ldI = 0 /\ ldT = 1 /\ existing = {}
    /\ ldTypeLog = <<>> /\ ldLog = <<>> /\ ldReport = NoReport /\ ldRun = 0
    /\ ldPrev = NoPrev

NoInput == [tree |-> Tree([GUID |-> "R", name |-> "Kalisi"], <<>>), edges |-> <<>>]

\* the importer and the exporter
Init == StoreEmpty /\ ImpIdle /\ LdIdle /\ ldInput = NoInput

Next ==
    \/ ImpStart
    \/ ImpDryRun
    \/ ImpRerun
    \/ ImpConstraint
    \/ ImpNode
    \/ ImpNodesDone
    \/ ImpEdge
    \/ ImpFinish
    \/ export_neo4j_to_json
    \/ ImpStartExport

Spec == Init /\ [][Next]_vars

\* the bulk loader's main(), run up to MaxLdRuns times on one input file
InitLoad == StoreEmpty /\ ImpIdle /\ LdIdle /\ ldInput \in LdInputs

NextLoad ==
    \/ LdStart
    \/ LdSubmit
    \/ LdFail
    \/ LdAckClear
    \/ LdAckNodes
    \/ LdNodesLoopEnd
    \/ LdAckIndex
    \/ LdAckRels
    \/ LdRelsLoopEnd
    \/ MainCallEdges
    \/ LdAckExisting
    \/ LdAckEdges
    \/ LdEdgesLoopEnd
    \/ LdAckVerify
    \/ LdClose

SpecLoad == InitLoad /\ [][NextLoad]_vars

\* load_relationships_batch called repeatedly on a store that holds the
\* first n nodes of the flattened tree
InitRel ==
    /\ ImpIdle /\ LdIdle /\ constraint = FALSE
    /\ ldInput \in [tree : Trees, edges : {<<>>}]
    /\ \E n \in 0..Len(FlatNodes) :
        /\ nodes = {[id |-> i, labels |-> {"CodebaseNode"}, props |-> FlatNodes[i]] :
                        i \in 1..n}
        /\ nextId = n + 1
    /\ edges = {}

NextRel ==
    \/ RelCall
    \/ LdSubmit
    \/ LdFail
    \/ LdAckRels
    \/ LdRelsLoopEnd

SpecRel == InitRel /\ [][NextRel]_vars

\* load_nodes_batch called repeatedly with the same list, the store never
\* cleared in between
InitNodes ==
    /\ StoreEmpty /\ ImpIdle /\ LdIdle
    /\ ldInput \in [tree : Trees, edges : {<<>>}]

NextNodes ==
    \/ NodesCall
    \/ NodesSubmit
    \/ LdFail
    \/ LdAckNodes
    \/ LdNodesLoopEnd
    \/ LdAckIndex

SpecNodes == InitNodes /\ [][NextNodes]_vars

\* main() up to the call of flatten_nodes, over trees that may hold an
\* empty GUID
InitFlat ==
    /\ StoreEmpty /\ ImpIdle /\ LdIdle
    /\ ldInput \in [tree : FlatTrees, edges : {<<>>}]

NextFlat == LdStart

SpecFlat == InitFlat /\ [][NextFlat]_vars

\* verify_load on stores of the expected size: the counts it reads are drawn
\* from StatsInputs
InitVerify == StoreEmpty /\ ImpIdle /\ LdIdle /\ ldInput = NoInput

NextVerify ==
    \/ VerifyCounts
    \/ LdClose

SpecVerify == InitVerify /\ [][NextVerify]_vars


(***************************************************************************)
(* Properties of the importer and the exporter, checked under Spec         *)
(***************************************************************************)
RerunEnded == impFrom = "rerun" /\ impPc = "done"

\* C1: running the import a second time with the identical payload against
\* the store the first run left changes neither the number of nodes nor the
\* number of edges (and the second run completes).
C1_RerunKeepsCounts ==
    impFrom = "rerun" =>
        /\ NodeCount = prevCount.nodes
        /\ EdgeCount = prevCount.edges
        /\ impPc # "failed"

\* C1 witness: a rerun has completed on a store holding nodes and edges
C1_Witness == RerunEnded /\ NodeCount >= 2 /\ EdgeCount >= 1

\* C2: after any sequence of imports from an empty store the store holds at
\* most one node per GUID.
C2_OneNodePerGuid ==
    \A n1, n2 \in nodes : n1.props.GUID = n2.props.GUID => n1 = n2

\* C6: importing the exporter's output into an empty store completes and
\* gives the node and edge counts the export reported.
C6_RoundTripCounts ==
    (impFrom = "export" /\ impPc \in {"done", "failed"}) =>
        /\ impPc = "done"
        /\ NodeCount = exportOut.export_metadata.node_count
        /\ EdgeCount = exportOut.export_metadata.edge_count

\* C7: an import that processed an edge one of whose endpoint GUIDs names no
\* node of the store does not complete successfully.
C7_DanglingEdgeFails ==
    impPc = "done" =>
        \A i \in DOMAIN payload.edges :
            /\ NodesWithGuid(payload.edges[i].fromGUID) # {}
            /\ NodesWithGuid(payload.edges[i].toGUID) # {}

NodeItemOk(node) == "GUID" \in DOMAIN node /\ node.GUID # ""
EdgeItemOk(edge) ==
    /\ "GUID" \in DOMAIN edge /\ edge.GUID # ""
    /\ "fromGUID" \in DOMAIN edge /\ edge.fromGUID # ""
    /\ "toGUID" \in DOMAIN edge /\ edge.toGUID # ""

\* C8: the importer stops at the first node without GUID or edge without
\* GUID, fromGUID or toGUID: it never moves past such an item, the error for
\* a missing endpoint names the edge, and the writes issued in the run are
\* exactly those of the items before it.
C8_FatalPayloadErrorStops ==
    /\ impPc = "nodes" =>
          \A j \in 1..(impI - 1) : NodeItemOk(payload.nodes[j])
    /\ impPc \in {"edges", "done"} =>
          /\ \A j \in DOMAIN payload.nodes : NodeItemOk(payload.nodes[j])
          /\ \A j \in 1..(impI - 1) : EdgeItemOk(payload.edges[j])
    /\ (impPc = "failed" /\ impErr.kind = "NodeMissingGUID") =>
          /\ ~NodeItemOk(payload.nodes[impI])
          /\ impWrites = impI - 1
    /\ (impPc = "failed" /\ impErr.kind \in {"EdgeMissingGUID", "EdgeMissingEndpoint"}) =>
          /\ ~EdgeItemOk(payload.edges[impI])
          /\ impWrites = Len(payload.nodes) + impI - 1
    /\ (impPc = "failed" /\ impErr.kind = "EdgeMissingEndpoint") =>
          impErr.edge = payload.edges[impI].GUID

\* C8 witness: the run stopped at an edge without endpoint that has items
\* before and after it
C8_Witness ==
    /\ impPc = "failed" /\ impErr.kind = "EdgeMissingEndpoint"
    /\ impI < Len(payload.edges) /\ impWrites >= 1

(***************************************************************************)
(* Properties of the bulk loader, checked under SpecLoad and SpecRel       *)
(***************************************************************************)
LogIdx(kind, status) ==
    {p \in DOMAIN ldLog : ldLog[p].kind = kind /\ ldLog[p].status = status}

EdgesReturned == ldPc \in {"verify", "verified", "closed"}

TypedEdgesInStore(t) == {r \in edges : r.type = t}

\* C3: when load_edges_batch has returned, for every normalized edge type
\* skipped + edges of that type created in the store = input edges of that
\* type, and every typed edge in the store joins two CodebaseNodes that hold
\* its source and target GUIDs.
C3_EdgeAccounting ==
    /\ EdgesReturned =>
          \A i \in DOMAIN CurKeys :
              \E j \in DOMAIN ldTypeLog :
                  /\ ldTypeLog[j].type = CurKeys[i]
                  /\ ldTypeLog[j].skipped + Cardinality(TypedEdgesInStore(CurKeys[i]))
                        = Len(TypeEdges(ldInput.edges, CurKeys[i]))
    /\ \A r \in edges :
          r.type # CONTAINS =>
              \E s, d \in CodebaseNodes :
                  /\ s.id = r.src /\ s.props.GUID = r.props.fromGUID
                  /\ d.id = r.dst /\ d.props.GUID = r.props.toGUID

\* C4: no containment batch, typed-edge batch or existence query is sent
\* before every node batch of the run has been sent and acknowledged, and a
\* request that has not been answered is the last one sent.
C4_NodesBeforeEdges ==
    /\ \A p \in DOMAIN ldLog :
          ldLog[p].kind \in {"rels", "edges_query", "edges_batch"} =>
              Cardinality({q \in LogIdx("nodes", "ok") : q < p})
                  = NumBatches(Len(FlatNodes), NodeBatchSize)
    /\ \A p \in DOMAIN ldLog : ldLog[p].status = "sent" => p = Len(ldLog)

\* C4 witness: a run with two node batches, a containment batch and a
\* typed-edge batch has ended
C4_Witness ==
    /\ ldPc = "closed"
    /\ Cardinality(LogIdx("nodes", "ok")) >= 2
    /\ LogIdx("rels", "ok") # {}
    /\ LogIdx("edges_batch", "ok") # {}

SameRequest(a, b) == a.kind = b.kind /\ a.type = b.type /\ a.k = b.k

NodesLoaded == Min(Cardinality(LogIdx("nodes", "ok")) * NodeBatchSize, Len(FlatNodes))

\* C9: when the store rejects a request the run is aborted, the rejected
\* request is the last one sent, no request is sent twice, and what the
\* acknowledged batches created is in the store.
C9_BatchFailureAborts ==
    /\ (\E p \in DOMAIN ldLog : ldLog[p].status = "error") =>
          /\ ldPc = "aborted"
          /\ ldLog[Len(ldLog)].status = "error"
          /\ \A p \in 1..(Len(ldLog) - 1) : ldLog[p].status = "ok"
    /\ \A p, q \in DOMAIN ldLog : SameRequest(ldLog[p], ldLog[q]) => p = q
    /\ (ldPc = "aborted" /\ LogIdx("clear", "ok") # {}) =>
          /\ Cardinality(CodebaseNodes) = NodesLoaded
          /\ \A i \in 1..NodesLoaded :
                \E n \in CodebaseNodes : n.props = FlatNodes[i]
          /\ \A p \in LogIdx("rels", "ok") :
                \A m \in ((ldLog[p].k - 1) * RelBatchSize + 1)..
                         Min(ldLog[p].k * RelBatchSize, Len(FlatRels)) :
                    \E r \in edges :
                        /\ r.type = CONTAINS
                        /\ r.props.fromGUID = FlatRels[m].parent_GUID
                        /\ r.props.toGUID = FlatRels[m].child_GUID
          /\ \A p \in LogIdx("edges_batch", "ok") :
                LET es == TypeEdges(ldInput.edges, ldLog[p].type)
                    valid == ValidEdges(es, ExistingGuids(es))
                IN \A m \in ((ldLog[p].k - 1) * EdgeBatchSize + 1)..
                            Min(ldLog[p].k * EdgeBatchSize, Len(valid)) :
                       \E r \in edges :
                           /\ r.type = ldLog[p].type
                           /\ r.props.edge_guid = valid[m].guid

\* C9 witness: the second batch of a stage was rejected after the first
\* batch of each stage before it had been acknowledged
C9_Witness ==
    /\ ldPc = "aborted"
    /\ ldLog[Len(ldLog)].kind = "edges_batch" /\ ldLog[Len(ldLog)].k = 2
    /\ Cardinality(CodebaseNodes) = 3

\* C10: a run that has ended has printed the verification report.
C10_SummaryAlways ==
    ldPc \in {"closed", "aborted"} => ldReport.printed

UniqueCbGuids ==
    \A n1, n2 \in CodebaseNodes : n1.props.GUID = n2.props.GUID => n1 = n2

ContainsEdges(p, c) ==
    {r \in edges : r.type = CONTAINS /\ r.props.fromGUID = p /\ r.props.toGUID = c}

\* the relationships of the batches the store has acknowledged
AckedRels ==
    UNION {{FlatRels[m] : m \in ((ldLog[p].k - 1) * RelBatchSize + 1)..
                                Min(ldLog[p].k * RelBatchSize, Len(FlatRels))} :
              p \in LogIdx("rels", "ok")}

\* C5: in a store where each GUID is held by one node, after any sequence of
\* calls of load_relationships_batch over the same list there is exactly one
\* CONTAINS edge for each acknowledged (parent, child) pair whose endpoints
\* exist, and never two for any pair.
C5_ContainsCreateIfAbsent ==
    UniqueCbGuids =>
        /\ \A rel \in AckedRels :
              (CbWithGuid(rel.parent_GUID) # {} /\ CbWithGuid(rel.child_GUID) # {}) =>
                  Cardinality(ContainsEdges(rel.parent_GUID, rel.child_GUID)) = 1
        /\ \A r1, r2 \in edges :
              (/\ r1.type = CONTAINS /\ r2.type = CONTAINS
               /\ r1.props = r2.props) => r1 = r2

\* C5 witness: a call was aborted by a rejected batch and a later call ran
\* to its end, on a store with unique GUIDs that holds two CONTAINS edges
C5_Witness ==
    /\ UniqueCbGuids
    /\ ldPc = "rels_returned" /\ ldRun >= 2
    /\ LogIdx("rels", "error") # {}
    /\ Cardinality(edges) = 2

(***************************************************************************)
(* Properties of load_nodes_batch, checked under SpecNodes                 *)
(***************************************************************************)
\* the calls of load_nodes_batch that ran to their end
NodeCallsReturned == Cardinality(LogIdx("index", "ok"))

NoRejection == \A p \in DOMAIN ldLog : ldLog[p].status # "error"

\* the number of items of the list that carry the GUID g
Occurrences(list, g) == Cardinality({i \in DOMAIN list : list[i].GUID = g})

\* the last call of load_nodes_batch has returned and none is running
NodesReturned == ldPc = "rels" /\ ~Awaiting

\* C11: when load_nodes_batch has run to its end k times with the same list
\* of L nodes, every time after the first on a store that held the nodes of
\* the calls before, the store holds k*L nodes and every GUID of the list is
\* held by k times as many nodes as the list has items with it: after the
\* second call 2L nodes, and two nodes for each GUID of a list of distinct
\* GUIDs.
C11_NodeLoadDuplicates ==
    (NoRejection /\ NodesReturned) =>
        /\ Cardinality(CodebaseNodes) = NodeCallsReturned * Len(FlatNodes)
        /\ \A i \in DOMAIN FlatNodes :
              Cardinality(CbWithGuid(FlatNodes[i].GUID))
                  = NodeCallsReturned * Occurrences(FlatNodes, FlatNodes[i].GUID)

\* C11 witness: the second call has returned, for a list of three nodes
\* with distinct GUIDs, and the store holds six nodes, each GUID twice
C11_Witness ==
    /\ NoRejection /\ NodesReturned /\ NodeCallsReturned = 2
    /\ Len(FlatNodes) = 3
    /\ \A i \in DOMAIN FlatNodes : Occurrences(FlatNodes, FlatNodes[i].GUID) = 1
    /\ Cardinality(CodebaseNodes) = 6
    /\ \A i \in DOMAIN FlatNodes : Cardinality(CbWithGuid(FlatNodes[i].GUID)) = 2

(***************************************************************************)
(* Properties of flatten_nodes, checked under SpecFlat                     *)
(***************************************************************************)
RECURSIVE TreeSize(_)
\* the number of nodes of a tree
TreeSize(t) ==
    IF t.children = <<>> THEN 1
    ELSE TreeSize([t EXCEPT !.children = Tail(t.children)])
            + TreeSize(Head(t.children))

RECURSIVE TreeGuids(_)
\* the identifiers the nodes of a tree carry
TreeGuids(t) ==
    {t.GUID} \cup UNION {TreeGuids(t.children[i]) : i \in DOMAIN t.children}

RECURSIVE TreeParentPairs(_)
\* <<identifier of a node, identifier of one of its children>>
TreeParentPairs(t) ==
    {<<t.GUID, t.children[i].GUID>> : i \in DOMAIN t.children}
        \cup UNION {TreeParentPairs(t.children[i]) : i \in DOMAIN t.children}

DistinctNonEmptyGuids(t) ==
    "" \notin TreeGuids(t) /\ Cardinality(TreeGuids(t)) = TreeSize(t)

\* C12: for a tree of N nodes with distinct, non-empty identifiers,
\* flatten_nodes returns N flat records, one per node, and N-1 (parent,
\* child) pairs; the root is the child of no pair and every other node is
\* the child of exactly one pair, whose parent is its parent in the tree.
C12_FlattenCounts ==
    (ldPc # "idle" /\ DistinctNonEmptyGuids(ldInput.tree)) =>
        LET t == ldInput.tree
            N == TreeSize(t)
        IN /\ Len(FlatNodes) = N
           /\ {FlatNodes[i].GUID : i \in DOMAIN FlatNodes} = TreeGuids(t)
           /\ Len(FlatRels) = N - 1
           /\ \A j \in DOMAIN FlatRels : FlatRels[j].child_GUID # t.GUID
           /\ \A g \in TreeGuids(t) \ {t.GUID} :
                 /\ Cardinality({j \in DOMAIN FlatRels :
                                    FlatRels[j].child_GUID = g}) = 1
                 /\ \A j \in DOMAIN FlatRels :
                       FlatRels[j].child_GUID = g =>
                           <<FlatRels[j].parent_GUID, g>> \in TreeParentPairs(t)

\* C12 witness: a chain of three nodes with distinct identifiers has been
\* flattened into three records and two pairs
C12_Witness ==
    /\ ldPc # "idle" /\ DistinctNonEmptyGuids(ldInput.tree)
    /\ TreeSize(ldInput.tree) = 3
    /\ Len(ldInput.tree.children) = 1
    /\ Len(FlatNodes) = 3 /\ Len(FlatRels) = 2

(***************************************************************************)
(* Chunking, checked under SpecLoad                                        *)
(***************************************************************************)
\* the requests of one loop, in the order they were sent
LoopRequests(kind, t) ==
    SelectSeq(ldLog, LAMBDA e : e.kind = kind /\ e.type = t)

RECURSIVE ConcatBatches(_)
ConcatBatches(reqs) ==
    IF reqs = <<>> THEN <<>>
    ELSE Head(reqs).batch \o ConcatBatches(Tail(reqs))

IsPrefix(a, b) == Len(a) <= Len(b) /\ SubSeq(b, 1, Len(a)) = a

\* ceil(L / B) for B >= 1
CeilDiv(L, B) == CHOOSE n \in 0..L : n * B >= L /\ (n = 0 \/ (n - 1) * B < L)

\* the batches sent so far are the list cut front to back into pieces of at
\* most B items, and all of it once the loop is over
Chunked(list, B, reqs, over) ==
    /\ \A i \in DOMAIN reqs : Len(reqs[i].batch) \in 1..B
    /\ IsPrefix(ConcatBatches(reqs), list)
    /\ Len(reqs) <= CeilDiv(Len(list), B)
    /\ over => /\ ConcatBatches(reqs) = list
               /\ Len(reqs) = CeilDiv(Len(list), B)

NodeLoopOver == \E p \in DOMAIN ldLog : ldLog[p].kind = "index"

RelLoopOver ==
    \/ ldPc \in {"rels_returned", "edges_query", "edges_batch", "verify",
                 "verified", "closed"}
    \/ \E p \in DOMAIN ldLog : ldLog[p].kind \in {"edges_query", "edges_batch", "verify"}

EdgeLoopOver(i) ==
    /\ \E p \in DOMAIN ldLog :
          ldLog[p].kind = "edges_query" /\ ldLog[p].type = CurKeys[i]
    /\ \/ ldT > i
       \/ ldPc \in {"verify", "verified", "closed"}
       \/ \E p \in DOMAIN ldLog : ldLog[p].kind = "verify"

\* C13: the node loader, the containment loader and the typed-edge loader
\* each send their list of length L in ceil(L/B) batches of at most B items,
\* which put one after the other in the order sent give the list: every item
\* is in exactly one batch.
C13_Chunking ==
    /\ Chunked(FlatNodes, NodeBatchSize, LoopRequests("nodes", <<>>), NodeLoopOver)
    /\ Chunked(FlatRels, RelBatchSize, LoopRequests("rels", <<>>), RelLoopOver)
    /\ \A i \in DOMAIN CurKeys :
          LET es == TypeEdges(ldInput.edges, CurKeys[i])
          IN Chunked(ValidEdges(es, ExistingGuids(es)), EdgeBatchSize,
                     LoopRequests("edges_batch", CurKeys[i]), EdgeLoopOver(i))

\* C13 witness: a run has ended that sent three nodes in batches of two and
\* one, and two batches each of containment pairs and of IMPORTS edges
C13_Witness ==
    /\ ldPc = "closed"
    /\ Len(FlatNodes) = 3 /\ NodeBatchSize = 2
    /\ Len(LoopRequests("nodes", <<>>)) = 2
    /\ Len(LoopRequests("nodes", <<>>)[2].batch) = 1
    /\ Len(LoopRequests("rels", <<>>)) = 2
    /\ Len(LoopRequests("edges_batch", IMPORTS)) = 2

(***************************************************************************)
(* Properties of verify_load, checked under SpecVerify                     *)
(***************************************************************************)
\* C14: the report says "perfect" exactly when the node count is 6943, the
\* CONTAINS count 6942 and the root's child count 22; the IMPORTS and
\* DEPENDS_ON counts never change that, a shortfall in them only adds the
\* note to a perfect report.
C14_VerifyClassification ==
    ldReport.printed =>
        LET st == ldReport.stats IN
        /\ ldReport.perfect <=>
              (st.node_count = 6943 /\ st.contains_count = 6942
               /\ st.kalisi_children = 22)
        /\ ldReport.warning <=>
              (ldReport.perfect
               /\ (st.imports_count < 2008 \/ st.depends_count < 25))

\* C14 witness: a perfect report with the note, for a store with no IMPORTS
\* edge
C14_Witness ==
    /\ ldReport.printed /\ ldReport.perfect /\ ldReport.warning
    /\ ldReport.stats.imports_count = 0

(***************************************************************************)
(* Properties of the exporter, checked under Spec                          *)
(***************************************************************************)
\* C15: every exported edge's source_id and target_id are ids of exported
\* nodes, no exported node carries the excluded label, and in the store the
\* export was read from no endpoint of an exported edge carries it.
C15_ExportNoDangling ==
    /\ \A i \in DOMAIN exportOut.edges :
          /\ \E j \in DOMAIN exportOut.nodes :
                exportOut.nodes[j].id = exportOut.edges[i].source_id
          /\ \E j \in DOMAIN exportOut.nodes :
                exportOut.nodes[j].id = exportOut.edges[i].target_id
    /\ \A j \in DOMAIN exportOut.nodes :
          ExcludedLabel \notin exportOut.nodes[j].labels
    /\ impPc = "exported" =>
          \A i \in DOMAIN exportOut.edges : \A n \in nodes :
              n.id \in {exportOut.edges[i].source_id, exportOut.edges[i].target_id}
                  => ExcludedLabel \notin n.labels

\* C15 witness: an export of a store that holds an edge between exported
\* nodes and an edge that ends at a node with the excluded label
C15_Witness ==
    /\ impPc = "exported"
    /\ Len(exportOut.edges) >= 1
    /\ \E r \in edges : \E n \in nodes :
          n.id = r.dst /\ ExcludedLabel \in n.labels

RECURSIVE SumCreated(_)
SumCreated(reqs) ==
    IF reqs = <<>> THEN 0 ELSE Head(reqs).created + SumCreated(Tail(reqs))

\* C16: when load_nodes_batch has returned, its result is the total number
\* of nodes the store reported as created, and a run in which the store
\* reported for some batch a count other than the batch's length is flagged
\* as degraded.
C16_NodeCountCheck ==
    /\ NodeLoopOver =>
          LoadNodesReturn =
              [kind |-> "int", value |-> SumCreated(LoopRequests("nodes", <<>>))]
    /\ (\E p \in LogIdx("nodes", "ok") :
            ldLog[p].created # Len(ldLog[p].batch)) => RunDegraded

(***************************************************************************)
(* Further properties of the importer, checked under Spec                  *)
(***************************************************************************)
\* C17: the constraint is attempted before the first merge of a run, and a
\* run goes the same way whether the attempt succeeded or failed: the only
\* step the constraint can change is a node merge it rejects, so no run ends
\* with a merge rejected by the constraint.
C17_ConstraintBestEffort ==
    /\ impPc = "constraint" => impWrites = 0
    /\ impErr.kind # "ConstraintError"

\* C18: a dry run prints the node and edge counts of the payload it read
\* and ends with no write issued, the store and its constraint unchanged.
C18_DryRunWritesNothing ==
    [][(impPc' = "dry_run_done" /\ impRun' # impRun) =>
            /\ nodes' = nodes /\ edges' = edges /\ nextId' = nextId
            /\ constraint' = constraint
            /\ impWrites' = 0
            /\ impOut' = [kind |-> "dry run", nodes |-> Len(payload'.nodes),
                          edges |-> Len(payload'.edges)]]_vars

\* C18 witness: a dry run has ended on a store that holds a node, for a
\* payload with a node the store does not hold, and the store has not grown
C18_Witness ==
    /\ impPc = "dry_run_done"
    /\ nodes # {}
    /\ \E i \in DOMAIN payload.nodes :
          /\ HasTruthy(payload.nodes[i], "GUID")
          /\ NodesWithGuid(payload.nodes[i].GUID) = {}
    /\ Len(payload.edges) = 2
    /\ NodeCount = prevCount.nodes /\ EdgeCount = prevCount.edges

\* the property keys the item of the merge step about to run supplies
StepKeys ==
    IF impPc = "nodes" /\ impI <= Len(payload.nodes)
    THEN DOMAIN PropertiesOf(payload.nodes[impI]) \cup {"GUID", "legacyNeo4jId"}
    ELSE IF impPc = "edges" /\ impI <= Len(payload.edges)
    THEN DOMAIN PropertiesOf(payload.edges[impI])
            \cup {"GUID", "fromGUID", "toGUID", "legacyNeo4jId"}
    ELSE {}

\* entity e of before the step is still there after it as f, with every
\* label and property key it had, and its unsupplied properties unchanged
Kept(e, f) ==
    /\ f.id = e.id
    /\ DOMAIN e.props \subseteq DOMAIN f.props
    /\ \A k \in DOMAIN e.props \ StepKeys : f.props[k] = e.props[k]

\* a step of an import keeps every node and edge as it was, up to the
\* properties the merged item supplies
StepKeepsAll ==
    impPc \in {"nodes", "edges"} =>
        /\ \A n \in nodes :
              \E m \in nodes' : Kept(n, m) /\ n.labels \subseteq m.labels
        /\ \A r \in edges :
              \E q \in edges' : /\ Kept(r, q) /\ q.type = r.type
                                 /\ q.src = r.src /\ q.dst = r.dst

\* C19: every step of an import leaves every node and edge that existed in
\* the store, removes no label and no property key from any of them, and
\* leaves unchanged every property whose key the merged item does not supply.
C19_NeverDeletes == [][StepKeepsAll]_vars

(***************************************************************************)
(* Re-running the bulk loader, checked under SpecLoad                      *)
(***************************************************************************)
\* C20: when main() has run to its end a second time on the same input,
\* right after a run that ran to its end, the store holds as many loader
\* nodes, CONTAINS edges and edges of each other type as after the first.
C20_LoaderRerunSameCounts ==
    (ldPc = "closed" /\ ldPrev.completed) => LoaderCounts = ldPrev.counts

\* C20 witness: the second of two complete runs has ended, on an input of
\* three nodes, two containment pairs and a typed edge that was created
C20_Witness ==
    /\ ldPc = "closed" /\ ldRun = 2 /\ ldPrev.completed
    /\ LoaderCounts.nodes = 3 /\ LoaderCounts.contains >= 2
    /\ LoaderCounts.typed # {}

\* the GUIDs of the nodes of the payload
PayloadGuids ==
    {payload.nodes[i].GUID :
        i \in {j \in DOMAIN payload.nodes : "GUID" \in DOMAIN payload.nodes[j]}}

\* the edge item has a GUID and both its endpoint GUIDs are GUIDs of nodes
\* of the payload
EndpointsInPayload(edge) ==
    /\ HasTruthy(edge, "GUID")
    /\ HasTruthy(edge, "fromGUID") /\ edge.fromGUID \in PayloadGuids
    /\ HasTruthy(edge, "toGUID") /\ edge.toGUID \in PayloadGuids

\* C21: while the edges of a payload are being merged every node of the
\* payload has been merged, each in a write of its own; so an edge whose two
\* endpoint GUIDs are GUIDs of nodes of the payload finds both endpoints in
\* the store, and once merged it is in the store between nodes holding them.
C21_NodesBeforeFirstEdge ==
    impPc \in {"edges", "done"} =>
        /\ impWrites = Len(payload.nodes) + impI - 1
        /\ \A i \in DOMAIN payload.nodes :
              /\ HasTruthy(payload.nodes[i], "GUID")
              /\ NodesWithGuid(payload.nodes[i].GUID) # {}
        /\ \A j \in DOMAIN payload.edges :
              EndpointsInPayload(payload.edges[j]) =>
                  /\ RelRows(payload.edges[j]) # {}
                  /\ j < impI =>
                        \E r \in edges :
                            /\ r.props.GUID = payload.edges[j].GUID
                            /\ GuidOf(r.src) = payload.edges[j].fromGUID
                            /\ GuidOf(r.dst) = payload.edges[j].toGUID

\* C21 witness: the first import into an empty store has ended, for a
\* payload that lists the target node of its edge before the source node,
\* and the edge is in the store
C21_Witness ==
    /\ impPc = "done" /\ impRun = 1
    /\ Len(payload.nodes) = 2
    /\ payload.nodes[1].GUID = "g2" /\ payload.nodes[2].GUID = "g1"
    /\ \E j \in DOMAIN payload.edges :
          /\ EndpointsInPayload(payload.edges[j])
          /\ payload.edges[j].fromGUID = "g1" /\ payload.edges[j].toGUID = "g2"
    /\ \E r \in edges : GuidOf(r.src) = "g1" /\ GuidOf(r.dst) = "g2"

====
